---- MODULE Spec2Model ----
(***************************************************************************)
(* Model of the Wonderland lookup bot: the /wonderland command handler     *)
(* (src/bot/cogs/wonderland.py), the image helpers it calls                *)
(* (src/bot/utils/images.py) and the cached-image table                    *)
(* (src/config/db_utils.py, src/config/database.py).                       *)
(*                                                                         *)
(* The bot runs on one asyncio event loop: the code between two awaits of  *)
(* a handler runs without interruption, so every action below is one such  *)
(* stretch of code, ending at the next await (or at the handler's return). *)
(***************************************************************************)
EXTENDS Integers, Sequences, FiniteSets, TLC

\* ------------------------------------------------------------------ bounds
NumInv == 2          \* handler invocations that may be in flight together
MaxRequests == 3     \* commands received one after the other
MaxOverlapping == 2  \* commands received when their handling overlaps
MaxTime == 1         \* last value of the wall clock, in seconds
NumViews == 2        \* /changelogs commands whose views are alive together
MaxChangelogs == 4   \* entries of changelogs.json, at most

Invs == 1..NumInv
Views == 1..NumViews

\* ------------------------------------------------------- python-like values
\* A decoded JSON value, tagged with its python type.
JNull == [t |-> "null"]
JInt(n) == [t |-> "int", n |-> n]
JStr(s) == [t |-> "str", s |-> s]
JDict(f) == [t |-> "dict", f |-> f]
EmptyDict == JDict(<<>>)

IsDict(v) == v.t = "dict"

\* bool(v)
Truthy(v) ==
    CASE v.t = "null" -> FALSE
      [] v.t = "int" -> v.n # 0
      [] v.t = "str" -> v.s # ""
      [] v.t = "dict" -> DOMAIN v.f # {}

\* d.get(k, default) for a dict d
PyGet(d, k, default) == IF k \in DOMAIN d.f THEN d.f[k] ELSE default

\* k in d for a dict d
HasKey(d, k) == k \in DOMAIN d.f

\* v != 0
NotZero(v) == ~(v.t = "int" /\ v.n = 0)

\* the text an embed shows for a value (None shows nothing)
Text(v) == IF v.t = "str" THEN v.s ELSE ""

\* --------------------------------------------------- the lookup's response
\* What wonderland() makes of the decoded body `data`, lines 89-149: an error
\* card (with or without eviction of the cached image), an exception of the
\* traversal, or the level_info object.
Outcome(out, description, evict, level_info) ==
    [out |-> out, description |-> description, evict |-> evict,
     level_info |-> level_info]

\* nested_msg or data.get('message', 'Level not found')
NestedDescription(data, level_detail) ==
    LET nested_msg == IF IsDict(level_detail)
                      THEN PyGet(level_detail, "message", JNull) ELSE JNull
    IN  IF Truthy(nested_msg) THEN Text(nested_msg)
        ELSE Text(PyGet(data, "message", JStr("Level not found")))

\* level_detail['data']['level_detail_response']['level_info'], with the
\* KeyError / TypeError handler of lines 135-149
LevelInfoOf(level_detail) ==
    LET ldd == level_detail.f["data"] IN
    IF ~IsDict(ldd) \/ ~HasKey(ldd, "level_detail_response")
    THEN Outcome("malformed", "Could not find level information in the response.", FALSE, JNull)
    ELSE LET ldr == ldd.f["level_detail_response"] IN
         IF ~IsDict(ldr) \/ ~HasKey(ldr, "level_info")
         THEN Outcome("malformed", "Could not find level information in the response.", FALSE, JNull)
         ELSE Outcome("level", "", FALSE, ldr.f["level_info"])

LookupResult(data) ==
    IF NotZero(PyGet(data, "retcode", JNull))
    THEN Outcome("api", Text(PyGet(data, "message", JStr("Unknown error"))), FALSE, JNull)
    ELSE LET d1 == PyGet(data, "data", EmptyDict) IN
         IF ~IsDict(d1) THEN Outcome("raise", "", FALSE, JNull)
         ELSE
         LET resp_map == PyGet(d1, "resp_map", EmptyDict)
             level_detail == IF IsDict(resp_map)
                             THEN PyGet(resp_map, "level_detail", EmptyDict)
                             ELSE EmptyDict
         IN  IF ~Truthy(level_detail)
             THEN Outcome("nested", NestedDescription(data, level_detail), FALSE, JNull)
             ELSE IF ~IsDict(level_detail)
             THEN Outcome("raise", "", FALSE, JNull)
             ELSE IF NotZero(PyGet(level_detail, "retcode", JInt(0)))
                     \/ ~Truthy(PyGet(level_detail, "data", JNull))
             THEN Outcome("nested", NestedDescription(data, level_detail),
                          NotZero(PyGet(level_detail, "retcode", JInt(0))), JNull)
             ELSE LevelInfoOf(level_detail)

\* ------------------------------------------------ bodies the endpoint sends
CoverUrl == "https://img.example/cover.png"

LevelInfo(cover) ==
    JDict([level_name |-> JStr("Castle"), desc |-> JStr("A castle level"),
           level_id |-> JStr("L-1"), cover_img |-> cover])
LevelInfoNoCover ==
    JDict([level_name |-> JStr("Castle"), desc |-> JStr("A castle level"),
           level_id |-> JStr("L-1")])
LevelDetail(info) ==
    JDict([retcode |-> JInt(0), message |-> JStr("succ"),
           data |-> JDict([level_detail_response |-> JDict([level_info |-> info])])])
Envelope(level_detail) ==
    JDict([retcode |-> JInt(0), message |-> JStr("OK"),
           data |-> JDict([resp_map |-> JDict([level_detail |-> level_detail])])])

Bodies == <<
    Envelope(LevelDetail(LevelInfo(JDict([url |-> JStr(CoverUrl)])))),
    Envelope(LevelDetail(LevelInfoNoCover)),
    Envelope(LevelDetail(LevelInfo(EmptyDict))),
    Envelope(LevelDetail(LevelInfo(JDict([url |-> JNull])))),
    Envelope(LevelDetail(LevelInfo(JDict([url |-> JStr("")])))),
    Envelope(LevelDetail(LevelInfo(JNull))),
    Envelope(LevelDetail(JNull)),
    JDict([retcode |-> JInt(1), message |-> JStr("Maintenance")]),
    JDict([retcode |-> JInt(1)]),
    JDict([message |-> JStr("no retcode")]),
    Envelope(JDict([retcode |-> JInt(-1), message |-> JStr("No such level")])),
    Envelope(JDict([retcode |-> JInt(-1)])),
    Envelope(JDict([retcode |-> JInt(-1), message |-> JStr("Gone"),
                    data |-> JDict([level_detail_response |-> EmptyDict])])),
    Envelope(JDict([retcode |-> JInt(0), message |-> JStr("empty"), data |-> JNull])),
    Envelope(JDict([retcode |-> JInt(0), data |-> EmptyDict])),
    Envelope(JNull),
    Envelope(EmptyDict),
    Envelope(JStr("oops")),
    JDict([retcode |-> JInt(0), message |-> JStr("OK")]),
    JDict([retcode |-> JInt(0), message |-> JStr("OK"), data |-> JNull]),
    JDict([retcode |-> JInt(0), message |-> JStr("OK"), data |-> JDict([resp_map |-> JNull])]),
    JDict([retcode |-> JInt(0), data |-> EmptyDict]),
    Envelope(JDict([retcode |-> JInt(0), data |-> JDict([other |-> JInt(1)])])),
    Envelope(JDict([retcode |-> JInt(0), data |-> JDict([level_detail_response |-> JNull])])),
    Envelope(JDict([retcode |-> JInt(0), data |-> JDict([level_detail_response |-> EmptyDict])])),
    Envelope(JDict([retcode |-> JInt(0), data |-> JStr("text")]))
  >>

\* ------------------------------------------------------------ the command
\* guid.isdigit(): python's str.isdigit is true of every character whose
\* Unicode Numeric_Type is Digit or Decimal, not only of 0-9.
AsciiDigits == {"0", "1", "2", "3", "4", "5", "6", "7", "8", "9"}
UnicodeDigits == {"U+00B2", "U+0663"}
DigitChars == AsciiDigits \cup UnicodeDigits

\* The guid strings a user types, with their characters.
GuidChars ==
    ("12" :> <<"1", "2">>) @@ ("U+00B2" :> <<"U+00B2">>) @@
    ("" :> <<>>) @@ ("a1" :> <<"a", "1">>)
GuidInputs == DOMAIN GuidChars

IsDigit(guid) ==
    LET cs == GuidChars[guid] IN
    Len(cs) > 0 /\ \A k \in 1..Len(cs) : cs[k] \in DigitChars

\* ^[0-9]+$
IsAsciiNumeric(guid) ==
    LET cs == GuidChars[guid] IN
    Len(cs) > 0 /\ \A k \in 1..Len(cs) : cs[k] \in AsciiDigits

REGION_NAMES == ("os_asia" :> "Asia") @@ ("os_usa" :> "America")
Regions == DOMAIN REGION_NAMES

\* ---------------------------------------------------------- files and urls
NoPath == [guid |-> "", server |-> "", timestamp |-> 0]

\* _make_filename: "{guid}_{server}_{timestamp}" when both are given,
\* "{guid}_{timestamp}" when only the guid is.
MakeFilename(guid, server, timestamp) ==
    IF guid # "" /\ server # ""
    THEN [guid |-> guid, server |-> server, timestamp |-> timestamp]
    ELSE [guid |-> guid, server |-> "", timestamp |-> timestamp]

\* What an embed's image slot refers to.
NoImage == [scheme |-> "none", url |-> "", file |-> NoPath]
RemoteImage(url) == [scheme |-> "remote", url |-> url, file |-> NoPath]
AttachmentRef(path) == [scheme |-> "attachment", url |-> "", file |-> path]
HostedUrl(path) == [scheme |-> "cdn", url |-> "", file |-> path]

\* embed['image']['url'] = <value>: None and "" leave the slot empty
ImageOf(v) == IF Truthy(v) THEN RemoteImage(Text(v)) ELSE NoImage

\* remove_cached_file: the directory afterwards, the value returned, and
\* whether the call raised.  The file is unlinked when it exists; an absent
\* path is left alone and reported by False.
RemoveCachedFileUnguarded(fs, path) ==
    [files |-> fs \ {path}, removed |-> TRUE, raised |-> path \notin fs]

RemoveCachedFile(fs, path) ==
    [files |-> fs \ {path}, removed |-> path \in fs, raised |-> FALSE]

\* ------------------------------------------------------------------- cards
ErrorCard(description) ==
    [kind |-> "error", title |-> "An error occurred", description |-> description,
     image |-> NoImage, fields |-> <<>>, urls |-> <<>>]
NoCard ==
    [kind |-> "none", title |-> "", description |-> "",
     image |-> NoImage, fields |-> <<>>, urls |-> <<>>]

\* ref/embed.json as __init__ loads it: two fields and two link buttons that
\* carry the placeholders level_id and server_region.
EmbedJson ==
    [title |-> "", description |-> "", image |-> NoImage,
     fields |-> <<"level_id", "server_region">>,
     urls |-> << <<"https://site.example/level/", "level_id", "?region=", "server_region">>,
                 <<"https://site.example/share?s=", "server_region", "&id=", "level_id">> >>]

\* str.replace(old, new) on a url kept as its sequence of pieces
Replace(url, old, new) ==
    [k \in DOMAIN url |-> IF url[k] = old THEN new ELSE url[k]]

\* Line 157: embed['image']['url'] = level_info.get('cover_img', {}).get('url'),
\* assigned on every render, whether or not there is a cover.
RenderImageIfCover(template, cover) ==
    IF Truthy(cover) THEN [template EXCEPT !.image = ImageOf(cover)] ELSE template

RenderImage(template, cover) == [template EXCEPT !.image = ImageOf(cover)]

\* Lines 151-182: embed_data = self.embed_template.copy() is a shallow copy,
\* so embed, its fields and the components are the template's own objects
\* and every assignment below lands in the template.  The result is the
\* template after the code ran, the card built from it, and whether the code
\* raised (level_info or cover_img not a dict: AttributeError on .get).
Render(template, level_info, guid, server) ==
    IF ~IsDict(level_info)
    THEN [raised |-> TRUE, template |-> template, card |-> NoCard, cover |-> JNull]
    ELSE
    LET t1 == [template EXCEPT
                 !.title = Text(PyGet(level_info, "level_name", JStr("N/A"))),
                 !.description = Text(PyGet(level_info, "desc", JStr("N/A")))]
        cover_img == PyGet(level_info, "cover_img", EmptyDict)
    IN  IF ~IsDict(cover_img)
        THEN [raised |-> TRUE, template |-> t1, card |-> NoCard, cover |-> JNull]
        ELSE
        LET cover == PyGet(cover_img, "url", JNull)
            t2 == [RenderImage(t1, cover) EXCEPT
                     !.fields = [k \in DOMAIN t1.fields |->
                        IF t1.fields[k] = "level_id"
                        THEN Text(PyGet(level_info, "level_id", JStr("N/A")))
                        ELSE IF t1.fields[k] = "server_region"
                        THEN (IF server \in DOMAIN REGION_NAMES
                              THEN REGION_NAMES[server] ELSE "N/A")
                        ELSE t1.fields[k]],
                     !.urls = [k \in DOMAIN t1.urls |->
                        Replace(Replace(t1.urls[k], "level_id", guid),
                                "server_region", server)]]
        IN  [raised |-> FALSE, template |-> t2,
             card |-> [kind |-> "card", title |-> t2.title,
                       description |-> t2.description, image |-> t2.image,
                       fields |-> t2.fields, urls |-> t2.urls],
             cover |-> cover]

\* ------------------------------------------------------------- the ledger
\* The cached_images table.  Every query of db_utils filters on guid and on
\* server, so the table is kept as the rows of each (guid, server), in
\* insertion order.  The table declares no unique constraint on
\* (guid, server): id is its only key, and a pair may own several rows.
Keys == GuidInputs \X Regions

\* A row of the table: created_at and updated_at take datetime.utcnow when
\* the row is inserted (database.py 35-36).
Row(image_url, original_url, utcnow) ==
    [image_url |-> image_url, original_url |-> original_url,
     created_at |-> utcnow, updated_at |-> utcnow]

RowsOf(rows, guid, server) == rows[<<guid, server>>]

\* get_cached_image: the first matching row's image_url, None when there is
\* none or when the query fails (ok = FALSE: SQLAlchemyError).
GetCachedImageAnyServer(rows, guid, server, ok) ==
    LET hit == {s \in Regions : rows[<<guid, s>>] # <<>>} IN
    IF ok /\ hit # {}
    THEN rows[<<guid, CHOOSE s \in hit : TRUE>>][1].image_url
    ELSE NoImage

GetCachedImage(rows, guid, server, ok) ==
    IF ok /\ RowsOf(rows, guid, server) # <<>>
    THEN RowsOf(rows, guid, server)[1].image_url
    ELSE NoImage

\* The UPDATE of an existing row: the two urls are assigned, and updated_at
\* takes datetime.utcnow (onupdate) when the flush finds a column changed;
\* created_at is not touched.
UpdatedRow(row, image_url, original_url, utcnow) ==
    [row EXCEPT !.image_url = image_url, !.original_url = original_url,
                !.updated_at = IF row.image_url # image_url
                                  \/ row.original_url # original_url
                               THEN utcnow ELSE @]

\* save_cached_image: update the first matching row or add one; nothing is
\* written when the transaction fails (rollback).
SaveCachedImageAlwaysInsert(rows, guid, server, image_url, original_url, utcnow, ok) ==
    IF ~ok THEN rows
    ELSE [rows EXCEPT ![<<guid, server>>] =
             Append(@, Row(image_url, original_url, utcnow))]

SaveCachedImageNoOriginal(rows, guid, server, image_url, original_url, utcnow, ok) ==
    IF ~ok THEN rows
    ELSE IF RowsOf(rows, guid, server) # <<>>
    THEN [rows EXCEPT ![<<guid, server>>][1] =
             UpdatedRow(@, image_url, @.original_url, utcnow)]
    ELSE [rows EXCEPT ![<<guid, server>>] = Append(@, Row(image_url, "", utcnow))]

SaveCachedImage(rows, guid, server, image_url, original_url, utcnow, ok) ==
    IF ~ok THEN rows
    ELSE IF RowsOf(rows, guid, server) # <<>>
    THEN [rows EXCEPT ![<<guid, server>>][1] =
             UpdatedRow(@, image_url, original_url, utcnow)]
    ELSE [rows EXCEPT ![<<guid, server>>] =
             Append(@, Row(image_url, original_url, utcnow))]

\* delete_cached_image: delete every matching row
DeleteCachedImageNoCommit(rows, guid, server, ok) == rows

DeleteCachedImage(rows, guid, server, ok) ==
    IF ~ok THEN rows
    ELSE [rows EXCEPT ![<<guid, server>>] = <<>>]

\* ------------------------------------------------------------------ state
VARIABLES
    embed_template,  \* WonderlandCog.embed_template, shared by every invocation
    ledger,          \* rows of the cached_images table
    files,           \* paths present in the .cache directory
    now,             \* int(time.time())
    started,         \* commands received so far
    workload,        \* how the commands arrive: one after the other, or overlapping
    inv,             \* per invocation: its locals, where it is suspended, and
                     \* a record of what it has done
    calls,           \* the direct calls of ledger and content-store functions so far
    views            \* the ChangelogPaginationView objects created so far

vars == <<embed_template, ledger, files, now, started, workload, inv, calls, views>>

\* Commands arriving one at a time exercise every input; overlapping commands
\* ask for the same level of the same region (they meet on one ledger key),
\* with a channel and an acknowledged defer, and are answered by a body with a
\* cover, one without, or an invalid-level error.  The polling workload is
\* that menu of commands, one at a time.
Slots == IF workload = "overlapping" THEN Invs ELSE {1}
GuidMenu == IF workload = "serial" THEN GuidInputs ELSE {"12"}
ChannelMenu == IF workload = "serial" THEN BOOLEAN ELSE {TRUE}
BodyMenu == IF workload = "serial" THEN 1..Len(Bodies) ELSE {1, 2, 11}
RegionMenu == IF workload = "serial" THEN Regions ELSE {"os_asia"}
DeferMenu == IF workload = "serial" THEN BOOLEAN ELSE {TRUE}
RequestLimit == IF workload = "overlapping" THEN MaxOverlapping ELSE MaxRequests

\* A direct call of a function of db_utils or of the content store, with its
\* arguments and what it returned.
Call(op, guid, server, image_url, original_url, path, ok, returned, raised) ==
    [op |-> op, guid |-> guid, server |-> server, image_url |-> image_url,
     original_url |-> original_url, path |-> path, ok |-> ok,
     returned |-> returned, raised |-> raised]

\* A /changelogs command that has not been received: no view exists.
NoView ==
    [len |-> 0, current_page |-> 0,
     previous_disabled |-> FALSE, next_disabled |-> FALSE, pressed |-> "none"]

\* An invocation that has not run yet.
Fresh ==
    [pc |-> "idle", guid |-> "", server |-> "",
     has_channel |-> FALSE, use_channel_fallback |-> FALSE,
     pending |-> NoCard, via |-> "", final_embed |-> NoCard,
     cover_url |-> "", file_path |-> NoPath, attempt |-> 0,
     \* record of the run
     delivered |-> <<>>, raised |-> FALSE, lookup |-> "none", layer |-> "none",
     nested_msg |-> "", cover_in |-> "",
     defers |-> 0, lookups |-> 0, downloads |-> 0, uploads |-> 0,
     gets |-> 0, deletes |-> 0, saves |-> <<>>, removes |-> 0,
     held |-> NoImage, cached |-> NoImage, evict_held |-> FALSE,
     evict_ok |-> FALSE, save_ok |-> FALSE,
     uploaded_url |-> NoImage, slept |-> <<>>, fetches |-> 0,
     seq |-> 0, overtook |-> {}, sends |-> 0]

InitState ==
    /\ embed_template = EmbedJson
    /\ ledger = [k \in Keys |-> <<>>]
    /\ files = {}
    /\ now = 0
    /\ started = 0
    /\ inv = [i \in Invs |-> Fresh]
    /\ calls = <<>>
    /\ views = [v \in Views |-> NoView]

Init == InitState /\ workload = "serial"
InitOverlapping == InitState /\ workload = "overlapping"
InitPolling == InitState /\ workload = "polling"

\* The way every message of r must leave once its defer has been answered.
DeliveryMode(r) == IF r.use_channel_fallback THEN "channel" ELSE "followup"

\* The three ways a message leaves: the first response to the interaction,
\* a followup to the deferred interaction, a plain send to the channel.
Message(card, via, file) == [card |-> card, via |-> via, file |-> file]

\* The recurring block "if use_channel_fallback: channel.send if there is a
\* channel, else: followup.send", up to its await.  Without a channel in
\* fallback mode nothing is sent and the handler returns.
SendOrReturnByFollowup(r, card) ==
    IF r.use_channel_fallback /\ ~r.has_channel
    THEN [r EXCEPT !.pc = "done"]
    ELSE [r EXCEPT !.pc = "send", !.pending = card, !.via = "followup"]

SendOrReturn(r, card) ==
    IF r.use_channel_fallback /\ ~r.has_channel
    THEN [r EXCEPT !.pc = "done"]
    ELSE [r EXCEPT !.pc = "send", !.pending = card,
                   !.via = IF r.use_channel_fallback THEN "channel" ELSE "followup"]

\* A member of a decoded body, null when it is absent or when what should
\* hold it is not an object.
Dig(v, k) == IF IsDict(v) /\ HasKey(v, k) THEN v.f[k] ELSE JNull

\* The first validation layer a decoded body fails, read off the body alone:
\* top-level retcode not 0; nested level_detail with a non-zero retcode;
\* nested level_detail missing, empty or without data; level_info missing.
FirstFailingLayer(data) ==
    LET level_detail == Dig(Dig(Dig(data, "data"), "resp_map"), "level_detail")
        ldr == Dig(Dig(level_detail, "data"), "level_detail_response")
    IN  IF NotZero(Dig(data, "retcode")) THEN "retcode"
        ELSE IF IsDict(level_detail) /\ HasKey(level_detail, "retcode")
                /\ NotZero(level_detail.f["retcode"]) THEN "nested_invalid"
        ELSE IF ~IsDict(level_detail) \/ ~Truthy(level_detail)
                \/ ~Truthy(Dig(level_detail, "data")) THEN "nested"
        ELSE IF ~(IsDict(ldr) /\ HasKey(ldr, "level_info")) THEN "level_info"
        ELSE "none"

\* The message of the nested level_detail of a body, "" when it has none.
NestedMessage(data) ==
    IF /\ HasKey(data, "data") /\ IsDict(data.f["data"])
       /\ HasKey(data.f["data"], "resp_map") /\ IsDict(data.f["data"].f["resp_map"])
       /\ HasKey(data.f["data"].f["resp_map"], "level_detail")
       /\ IsDict(data.f["data"].f["resp_map"].f["level_detail"])
    THEN Text(PyGet(data.f["data"].f["resp_map"].f["level_detail"], "message", JNull))
    ELSE ""

\* The cover url of the level_info of a body, "" when it has none.
CoverIn(data) ==
    LET res == LookupResult(data) IN
    IF /\ res.out = "level" /\ IsDict(res.level_info)
       /\ HasKey(res.level_info, "cover_img")
       /\ IsDict(res.level_info.f["cover_img"])
    THEN Text(PyGet(res.level_info.f["cover_img"], "url", JNull))
    ELSE ""

\* The image the ledger holds for a key, NoImage when it holds none.
Held(rows, guid, server) ==
    IF rows[<<guid, server>>] # <<>> THEN rows[<<guid, server>>][1].image_url
    ELSE NoImage

\* ---------------------------------------------------------------- actions
\* wonderland() is called: lines 31-44, up to the first await.  Invocations
\* have no identity of their own: a new one takes the first free slot.
Start(i) ==
    /\ i \in Slots
    /\ inv[i].pc \in {"idle", "done"}
    /\ \A j \in Slots : j < i => inv[j].pc \notin {"idle", "done"}
    /\ started < RequestLimit
    /\ \E guid \in GuidMenu, server \in RegionMenu, has_channel \in ChannelMenu :
         LET r == [Fresh EXCEPT !.guid = guid, !.server = server,
                                !.has_channel = has_channel, !.seq = started + 1]
         IN  inv' = [inv EXCEPT ![i] =
                IF ~IsDigit(guid)
                THEN [r EXCEPT !.pc = "send", !.pending = ErrorCard("Invalid GUID"),
                               !.via = "response"]
                ELSE [r EXCEPT !.pc = "defer"]]
    /\ started' = started + 1
    /\ UNCHANGED <<embed_template, ledger, files, now, workload, calls, views>>

\* await interaction.response.defer(thinking=True), lines 42-55
DeferLedgerFirst(i) ==
    /\ inv[i].pc = "defer"
    /\ \E ok \in DeferMenu, db_ok \in BOOLEAN :
         LET r == [inv[i] EXCEPT !.defers = @ + 1, !.use_channel_fallback = ~ok]
             cached == GetCachedImage(ledger, r.guid, r.server, db_ok)
         IN  inv' = [inv EXCEPT ![i] =
                IF cached # NoImage
                THEN SendOrReturn(
                        [r EXCEPT !.gets = @ + 1, !.cached = cached,
                                  !.held = Held(ledger, r.guid, r.server)],
                        [NoCard EXCEPT !.kind = "card", !.image = cached])
                ELSE [r EXCEPT !.pc = "post"]]
    /\ UNCHANGED <<embed_template, ledger, files, now, started, workload, calls, views>>

Defer(i) ==
    /\ inv[i].pc = "defer"
    /\ \E ok \in DeferMenu :
         inv' = [inv EXCEPT ![i] =
                    [@ EXCEPT !.pc = "post", !.defers = @ + 1,
                              !.use_channel_fallback = ~ok]]
    /\ UNCHANGED <<embed_template, ledger, files, now, started, workload, calls, views>>

\* An awaited send of a card outside any try block returns or raises; the
\* handler returns right after it.
Send(i) ==
    /\ inv[i].pc = "send"
    /\ \E ok \in BOOLEAN :
         inv' = [inv EXCEPT ![i] =
                    IF ok
                    THEN [@ EXCEPT !.pc = "done", !.sends = @ + 1,
                            !.delivered = Append(@, Message(inv[i].pending, inv[i].via, NoPath))]
                    ELSE [@ EXCEPT !.pc = "done", !.sends = @ + 1, !.raised = TRUE]]
    /\ UNCHANGED <<embed_template, ledger, files, now, started, workload, calls, views>>

\* session.post raises (connection error): nothing catches it.
PostFails(i) ==
    /\ inv[i].pc = "post"
    /\ inv' = [inv EXCEPT ![i] =
                  [@ EXCEPT !.pc = "done", !.lookups = @ + 1,
                            !.lookup = "connection", !.raised = TRUE]]
    /\ UNCHANGED <<embed_template, ledger, files, now, started, workload, calls, views>>

\* response.status != 200, lines 59-71
PostStatus(i) ==
    /\ inv[i].pc = "post"
    /\ inv' = [inv EXCEPT ![i] =
                  SendOrReturn([@ EXCEPT !.lookups = @ + 1, !.lookup = "status",
                                          !.layer = "status"],
                               ErrorCard("The server returned an error."))]
    /\ UNCHANGED <<embed_template, ledger, files, now, started, workload, calls, views>>

\* response.json() raises JSONDecodeError, lines 73-87
PostUndecodable(i) ==
    /\ inv[i].pc = "post"
    /\ inv' = [inv EXCEPT ![i] =
                  SendOrReturn([@ EXCEPT !.lookups = @ + 1, !.lookup = "decode",
                                          !.layer = "decode"],
                               ErrorCard("Could not decode the response from the server."))]
    /\ UNCHANGED <<embed_template, ledger, files, now, started, workload, calls, views>>

\* The commands, by their order of arrival, that are in flight for the key
\* of r after a successful lookup and a miss of the cache.
InFlightMisses(i, r) ==
    {inv[j].seq : j \in {j \in Invs :
        /\ j # i /\ inv[j].pc \notin {"idle", "done"}
        /\ inv[j].guid = r.guid /\ inv[j].server = r.server
        /\ inv[j].lookup = "level" /\ inv[j].gets = 1 /\ inv[j].cached = NoImage}}

\* The error replies of lines 89-149; the one of the nested level_detail
\* (lines 107-133) first deletes the cached image when its retcode is not 0.
ErrorReplyEvictsOnAnyNested(i, r, res, db_ok) ==
    /\ ledger' = IF res.out = "nested"
                 THEN DeleteCachedImage(ledger, r.guid, r.server, db_ok)
                 ELSE ledger
    /\ inv' = [inv EXCEPT ![i] =
                  SendOrReturn(
                    [r EXCEPT !.lookup = IF res.evict THEN "invalid" ELSE res.out,
                              !.deletes = IF res.out = "nested" THEN @ + 1 ELSE @,
                              !.evict_held = res.evict /\ Held(ledger, r.guid, r.server) # NoImage,
                              !.evict_ok = res.evict /\ db_ok,
                              !.overtook = IF res.evict THEN InFlightMisses(i, r) ELSE {}],
                    ErrorCard(res.description))]
    /\ UNCHANGED embed_template

ErrorReplyBlockedByDelete(i, r, res, db_ok) ==
    /\ ledger' = IF res.evict
                 THEN DeleteCachedImage(ledger, r.guid, r.server, db_ok)
                 ELSE ledger
    /\ inv' = [inv EXCEPT ![i] =
                  LET r1 == [r EXCEPT !.lookup = IF res.evict THEN "invalid" ELSE res.out,
                                      !.deletes = IF res.evict THEN @ + 1 ELSE @,
                                      !.evict_held = res.evict
                                          /\ Held(ledger, r.guid, r.server) # NoImage,
                                      !.evict_ok = res.evict /\ db_ok,
                              !.overtook = IF res.evict THEN InFlightMisses(i, r) ELSE {}]
                  IN  IF res.evict /\ ~db_ok
                      THEN [r1 EXCEPT !.pc = "done"]
                      ELSE SendOrReturn(r1, ErrorCard(res.description))]
    /\ UNCHANGED embed_template

ErrorReplyServesCached(i, r, res, db_ok) ==
    LET cached == GetCachedImage(ledger, r.guid, r.server, db_ok)
        r1 == [r EXCEPT !.lookup = IF res.evict THEN "invalid" ELSE res.out,
                        !.deletes = IF res.evict THEN @ + 1 ELSE @,
                        !.evict_held = res.evict /\ Held(ledger, r.guid, r.server) # NoImage,
                        !.evict_ok = res.evict /\ db_ok,
                        !.overtook = IF res.evict THEN InFlightMisses(i, r) ELSE {}]
    IN
    /\ ledger' = IF res.evict
                 THEN DeleteCachedImage(ledger, r.guid, r.server, db_ok)
                 ELSE ledger
    /\ inv' = [inv EXCEPT ![i] =
                  IF ~res.evict /\ cached # NoImage
                  THEN SendOrReturn([r1 EXCEPT !.gets = @ + 1, !.cached = cached],
                                    [NoCard EXCEPT !.kind = "card", !.image = cached])
                  ELSE SendOrReturn(r1, ErrorCard(res.description))]
    /\ UNCHANGED embed_template

ErrorReply(i, r, res, db_ok) ==
    /\ ledger' = IF res.evict
                 THEN DeleteCachedImage(ledger, r.guid, r.server, db_ok)
                 ELSE ledger
    /\ inv' = [inv EXCEPT ![i] =
                  SendOrReturn(
                    [r EXCEPT !.lookup = IF res.evict THEN "invalid" ELSE res.out,
                              !.deletes = IF res.evict THEN @ + 1 ELSE @,
                              !.evict_held = res.evict /\ Held(ledger, r.guid, r.server) # NoImage,
                              !.evict_ok = res.evict /\ db_ok,
                              !.overtook = IF res.evict THEN InFlightMisses(i, r) ELSE {}],
                    ErrorCard(res.description))]
    /\ UNCHANGED embed_template

\* Lines 184-205 up to the next await: the image leg's cache check.
CheckCacheRaisesOnFailure(r, card, cover, db_ok) ==
    LET cached == GetCachedImage(ledger, r.guid, r.server, db_ok)
        r1 == [r EXCEPT !.cover_url = Text(cover), !.gets = @ + 1,
                        !.held = Held(ledger, r.guid, r.server),
                        !.cached = cached]
    IN  IF ~db_ok
        THEN [r1 EXCEPT !.pc = "done", !.raised = TRUE]
        ELSE IF cached # NoImage
        THEN SendOrReturn([r1 EXCEPT !.final_embed = [card EXCEPT !.image = cached]],
                          [card EXCEPT !.image = cached])
        ELSE [r1 EXCEPT !.pc = "download", !.final_embed = card]

CheckCache(r, card, cover, db_ok) ==
    LET cached == GetCachedImage(ledger, r.guid, r.server, db_ok)
        r1 == [r EXCEPT !.cover_url = Text(cover), !.gets = @ + 1,
                        !.held = Held(ledger, r.guid, r.server),
                        !.cached = cached]
    IN  IF cached # NoImage
        THEN SendOrReturn([r1 EXCEPT !.final_embed = [card EXCEPT !.image = cached]],
                          [card EXCEPT !.image = cached])
        ELSE [r1 EXCEPT !.pc = "download", !.final_embed = card]

\* Lines 151-205 and 252-262 up to the next await: render the card, then the
\* image leg's cache check, or the send of the card without a cover.
RenderAndCheck(i, r, res, db_ok) ==
    LET rendered == Render(embed_template, res.level_info, r.guid, r.server)
        r0 == [r EXCEPT !.lookup = "level"]
    IN
    /\ embed_template' = rendered.template
    /\ ledger' = ledger
    /\ inv' = [inv EXCEPT ![i] =
                  IF rendered.raised
                  THEN [r0 EXCEPT !.pc = "done", !.raised = TRUE]
                  ELSE IF ~Truthy(rendered.cover)
                  THEN SendOrReturn([r0 EXCEPT !.final_embed = rendered.card],
                                    rendered.card)
                  ELSE CheckCache(r0, rendered.card, rendered.cover, db_ok)]

\* The response is 200 and decodes: lines 89-224 up to the next await.
PostJson(i) ==
    /\ inv[i].pc = "post"
    /\ \E b \in BodyMenu, db_ok \in BOOLEAN :
         LET res == LookupResult(Bodies[b])
             r == [inv[i] EXCEPT !.lookups = @ + 1,
                                 !.layer = FirstFailingLayer(Bodies[b]),
                                 !.nested_msg = NestedMessage(Bodies[b]),
                                 !.cover_in = CoverIn(Bodies[b])]
         IN  CASE res.out = "raise" ->
                    /\ inv' = [inv EXCEPT ![i] =
                                  [r EXCEPT !.pc = "done", !.lookup = "traversal",
                                            !.raised = TRUE]]
                    /\ UNCHANGED <<embed_template, ledger>>
               [] res.out \in {"api", "nested", "malformed"} ->
                    ErrorReply(i, r, res, db_ok)
               [] res.out = "level" -> RenderAndCheck(i, r, res, db_ok)
    /\ UNCHANGED <<files, now, started, workload, calls, views>>

\* ------------------------------------------------------------ image leg
PollAttempts == 3        \* range(1, 4)
BackoffHalfSeconds == 3  \* asyncio.sleep(attempt * 1.5), counted in half seconds

AfterUploadKeepOnFailure(i, r, uploaded_url, db_ok) ==
    /\ ledger' = IF uploaded_url # NoImage
                 THEN SaveCachedImage(ledger, r.guid, r.server, uploaded_url,
                                      r.cover_url, now, db_ok)
                 ELSE ledger
    /\ files' = IF uploaded_url # NoImage
                THEN RemoveCachedFile(files, r.file_path).files ELSE files
    /\ inv' = [inv EXCEPT ![i] =
                  [r EXCEPT !.pc = "done", !.uploaded_url = uploaded_url,
                            !.saves = IF uploaded_url # NoImage
                                      THEN Append(@, [guid |-> r.guid, server |-> r.server,
                                                      image_url |-> uploaded_url,
                                                      original_url |-> r.cover_url])
                                      ELSE @,
                            !.save_ok = uploaded_url # NoImage /\ db_ok,
                            !.removes = IF uploaded_url # NoImage THEN @ + 1 ELSE @]]

AfterUploadSaveAlways(i, r, uploaded_url, db_ok) ==
    /\ ledger' = SaveCachedImage(ledger, r.guid, r.server, uploaded_url,
                                 r.cover_url, now, db_ok)
    /\ files' = RemoveCachedFile(files, r.file_path).files
    /\ inv' = [inv EXCEPT ![i] =
                  [r EXCEPT !.pc = "done", !.uploaded_url = uploaded_url,
                            !.saves = Append(@, [guid |-> r.guid, server |-> r.server,
                                                 image_url |-> uploaded_url,
                                                 original_url |-> r.cover_url]),
                            !.save_ok = db_ok,
                            !.removes = @ + 1]]

AfterUploadSavesSourceUrl(i, r, uploaded_url, db_ok) ==
    LET image_url == IF uploaded_url # NoImage THEN uploaded_url
                     ELSE RemoteImage(r.cover_url)
    IN
    /\ ledger' = SaveCachedImage(ledger, r.guid, r.server, image_url,
                                 r.cover_url, now, db_ok)
    /\ files' = RemoveCachedFile(files, r.file_path).files
    /\ inv' = [inv EXCEPT ![i] =
                  [r EXCEPT !.pc = "done", !.uploaded_url = uploaded_url,
                            !.saves = Append(@, [guid |-> r.guid, server |-> r.server,
                                                 image_url |-> image_url,
                                                 original_url |-> r.cover_url]),
                            !.save_ok = db_ok,
                            !.removes = @ + 1]]

\* Lines 235-250, after upload_file_via_interaction has returned uploaded_url
\* (NoImage for None): save it when there is one, then the finally block
\* removes the scratch file, and the handler returns.
AfterUpload(i, r, uploaded_url, db_ok) ==
    /\ ledger' = IF uploaded_url # NoImage
                 THEN SaveCachedImage(ledger, r.guid, r.server, uploaded_url,
                                      r.cover_url, now, db_ok)
                 ELSE ledger
    /\ files' = RemoveCachedFile(files, r.file_path).files
    /\ inv' = [inv EXCEPT ![i] =
                  [r EXCEPT !.pc = "done", !.uploaded_url = uploaded_url,
                            !.saves = IF uploaded_url # NoImage
                                      THEN Append(@, [guid |-> r.guid, server |-> r.server,
                                                      image_url |-> uploaded_url,
                                                      original_url |-> r.cover_url])
                                      ELSE @,
                            !.save_ok = uploaded_url # NoImage /\ db_ok,
                            !.removes = @ + 1]]

\* download_image raises (status, empty body, timeout): lines 211-224, the
\* rendered card is sent as it is.
DownloadFails(i) ==
    /\ inv[i].pc = "download"
    /\ inv' = [inv EXCEPT ![i] =
                  SendOrReturn([@ EXCEPT !.downloads = @ + 1], inv[i].final_embed)]
    /\ UNCHANGED <<embed_template, ledger, files, now, started, workload, calls, views>>

\* download_image writes the scratch file (images.py 105-110) and leaves
\* through the exits of its two "async with" blocks, which close the response
\* and the session: other coroutines may run before it returns the path.
DownloadOk(i) ==
    /\ inv[i].pc = "download"
    /\ LET path == MakeFilename(inv[i].guid, inv[i].server, now) IN
         /\ files' = files \cup {path}
         /\ inv' = [inv EXCEPT ![i] =
                       [@ EXCEPT !.pc = "upload_open", !.downloads = @ + 1,
                                 !.file_path = path]]
    /\ UNCHANGED <<embed_template, ledger, now, started, workload, calls, views>>

\* download_image has returned: lines 226-234 and upload_file_via_interaction
\* up to its send (images.py 139-163).  When the scratch file is no longer
\* there the helper raises FileNotFoundError (images.py 140-141), which the
\* handler of wonderland.py 241 logs; in fallback mode without a channel the
\* helper's RuntimeError is caught by its own handler and it returns None.
\* Either way nothing is sent and the finally block runs.
UploadOpen(i) ==
    /\ inv[i].pc = "upload_open"
    /\ LET r == [inv[i] EXCEPT
                    !.final_embed = [@ EXCEPT !.image = AttachmentRef(inv[i].file_path)]]
       IN  IF r.file_path \notin files \/ (r.use_channel_fallback /\ ~r.has_channel)
           THEN AfterUpload(i, r, NoImage, TRUE)
           ELSE /\ inv' = [inv EXCEPT ![i] =
                              [r EXCEPT !.pc = "upload_send", !.via = DeliveryMode(r)]]
                /\ UNCHANGED <<ledger, files>>
    /\ UNCHANGED <<embed_template, now, started, workload, calls, views>>

\* The send with the file raises: images.py 164-167, the helper returns None.
UploadSendFails(i) ==
    /\ inv[i].pc = "upload_send"
    /\ \E db_ok \in BOOLEAN :
         AfterUpload(i, [inv[i] EXCEPT !.uploads = @ + 1, !.sends = @ + 1],
                     NoImage, db_ok)
    /\ UNCHANGED <<embed_template, now, started, workload, calls, views>>

\* The send with the file returns a message that lists its attachment:
\* images.py 170-178.
UploadSendInline(i) ==
    /\ inv[i].pc = "upload_send"
    /\ \E db_ok \in BOOLEAN :
         AfterUpload(i,
            [inv[i] EXCEPT !.uploads = @ + 1, !.sends = @ + 1,
                !.delivered = Append(@, Message(inv[i].final_embed, inv[i].via,
                                                inv[i].file_path))],
            HostedUrl(inv[i].file_path), db_ok)
    /\ UNCHANGED <<embed_template, now, started, workload, calls, views>>

\* The send returns a message without attachments: images.py 180-198, up to
\* await bot.fetch_channel.
UploadSendBare(i) ==
    /\ inv[i].pc = "upload_send"
    /\ inv' = [inv EXCEPT ![i] =
                  [@ EXCEPT !.pc = "fetch_channel", !.uploads = @ + 1,
                      !.sends = @ + 1,
                      !.delivered = Append(@, Message(inv[i].final_embed, inv[i].via,
                                                      inv[i].file_path))]]
    /\ UNCHANGED <<embed_template, ledger, files, now, started, workload, calls, views>>

\* bot.fetch_channel returns a channel that has fetch_message: the loop of
\* images.py 210 starts.
FetchChannelOk(i) ==
    /\ inv[i].pc = "fetch_channel"
    /\ inv' = [inv EXCEPT ![i] = [@ EXCEPT !.pc = "poll_sleep", !.attempt = 1]]
    /\ UNCHANGED <<embed_template, ledger, files, now, started, workload, calls, views>>

\* bot.fetch_channel raises, or the channel is of another type: images.py
\* 225-231, the helper returns None.
FetchChannelFails(i) ==
    /\ inv[i].pc = "fetch_channel"
    /\ \E db_ok \in BOOLEAN : AfterUpload(i, inv[i], NoImage, db_ok)
    /\ UNCHANGED <<embed_template, now, started, workload, calls, views>>

\* await asyncio.sleep(attempt * 1.5)
PollSleepFlat(i) ==
    /\ inv[i].pc = "poll_sleep"
    /\ inv' = [inv EXCEPT ![i] =
                  [@ EXCEPT !.pc = "poll_fetch",
                            !.slept = Append(@, BackoffHalfSeconds)]]
    /\ UNCHANGED <<embed_template, ledger, files, now, started, workload, calls, views>>

PollSleep(i) ==
    /\ inv[i].pc = "poll_sleep"
    /\ inv' = [inv EXCEPT ![i] =
                  [@ EXCEPT !.pc = "poll_fetch",
                            !.slept = Append(@, inv[i].attempt * BackoffHalfSeconds)]]
    /\ UNCHANGED <<embed_template, ledger, files, now, started, workload, calls, views>>

\* channel.fetch_message returns the message with its attachment.
PollFound(i) ==
    /\ inv[i].pc = "poll_fetch"
    /\ \E db_ok \in BOOLEAN :
         AfterUpload(i, [inv[i] EXCEPT !.fetches = @ + 1],
                     HostedUrl(inv[i].file_path), db_ok)
    /\ UNCHANGED <<embed_template, now, started, workload, calls, views>>

\* channel.fetch_message returns no attachment yet, or raises something
\* other than NotFound: next attempt, or the end of the loop.
PollAgainResends(i) ==
    /\ inv[i].pc = "poll_fetch"
    /\ LET r == [inv[i] EXCEPT !.fetches = @ + 1, !.sends = @ + 1,
                     !.delivered = Append(@, Message(inv[i].final_embed, inv[i].via,
                                                     inv[i].file_path))]
       IN  IF inv[i].attempt < PollAttempts
           THEN /\ inv' = [inv EXCEPT ![i] =
                              [r EXCEPT !.pc = "poll_sleep", !.attempt = @ + 1]]
                /\ UNCHANGED <<ledger, files>>
           ELSE \E db_ok \in BOOLEAN : AfterUpload(i, r, NoImage, db_ok)
    /\ UNCHANGED <<embed_template, now, started, workload, calls, views>>

PollAgain(i) ==
    /\ inv[i].pc = "poll_fetch"
    /\ IF inv[i].attempt < PollAttempts
       THEN /\ inv' = [inv EXCEPT ![i] =
                          [@ EXCEPT !.pc = "poll_sleep", !.attempt = @ + 1,
                                    !.fetches = @ + 1]]
            /\ UNCHANGED <<ledger, files>>
       ELSE \E db_ok \in BOOLEAN :
              AfterUpload(i, [inv[i] EXCEPT !.fetches = @ + 1], NoImage, db_ok)
    /\ UNCHANGED <<embed_template, now, started, workload, calls, views>>

\* channel.fetch_message raises NotFound: break.
PollNotFound(i) ==
    /\ inv[i].pc = "poll_fetch"
    /\ \E db_ok \in BOOLEAN :
         AfterUpload(i, [inv[i] EXCEPT !.fetches = @ + 1], NoImage, db_ok)
    /\ UNCHANGED <<embed_template, now, started, workload, calls, views>>

\* A second passes.  The clock is read only by _make_filename, when a
\* download completes, so only the seconds that pass while a download is
\* pending are told apart.
Tick ==
    /\ now < MaxTime
    /\ \E i \in Invs : inv[i].pc = "download"
    /\ now' = now + 1
    /\ UNCHANGED <<embed_template, ledger, files, started, workload, inv, calls, views>>

Next ==
    \/ \E i \in Invs : Start(i)
    \/ \E i \in Invs : Defer(i)
    \/ \E i \in Invs : Send(i)
    \/ \E i \in Invs : PostFails(i)
    \/ \E i \in Invs : PostStatus(i)
    \/ \E i \in Invs : PostUndecodable(i)
    \/ \E i \in Invs : PostJson(i)
    \/ \E i \in Invs : DownloadFails(i)
    \/ \E i \in Invs : DownloadOk(i)
    \/ \E i \in Invs : UploadOpen(i)
    \/ \E i \in Invs : UploadSendFails(i)
    \/ \E i \in Invs : UploadSendInline(i)
    \/ \E i \in Invs : UploadSendBare(i)
    \/ \E i \in Invs : FetchChannelOk(i)
    \/ \E i \in Invs : FetchChannelFails(i)
    \/ \E i \in Invs : PollSleep(i)
    \/ \E i \in Invs : PollFound(i)
    \/ \E i \in Invs : PollAgain(i)
    \/ \E i \in Invs : PollNotFound(i)
    \/ Tick

\* Commands handled one after the other, with every input.
Spec == Init /\ [][Next]_vars

\* Commands whose handling overlaps.
SpecOverlapping == InitOverlapping /\ [][Next]_vars

\* The event loop resumes a coroutine whose await has completed: a sleep
\* ends after its delay, and a fetch of the message returns or raises.
Poll(i) == PollSleep(i) \/ PollFound(i) \/ PollAgain(i) \/ PollNotFound(i)
SpecPolling == InitPolling /\ [][Next]_vars /\ \A i \in Invs : WF_vars(Poll(i))

\* ------------------------------------------- the ledger, called directly
MaxLedgerCalls == 3  \* direct calls made of the functions of db_utils

\* What the callers pass: the hosted url of an upload, and the cover url it
\* came from or None.
StoreKeys == {<<"12", s>> : s \in Regions}
StoreUrls == {HostedUrl(MakeFilename("12", s, 0)) : s \in Regions}
StoreOriginals == {CoverUrl, ""}

InitLedger == InitState /\ workload = "ledger"

\* save_cached_image(guid, server, image_url, original_url) is called; it
\* returns True when the transaction committed.
CallSave ==
    /\ Len(calls) < MaxLedgerCalls
    /\ \E k \in StoreKeys, image_url \in StoreUrls,
          original_url \in StoreOriginals, ok \in BOOLEAN :
         /\ ledger' = SaveCachedImage(ledger, k[1], k[2], image_url, original_url, now, ok)
         /\ calls' = Append(calls, Call("save", k[1], k[2], image_url, original_url,
                                        NoPath, ok, ok, FALSE))
    /\ UNCHANGED <<embed_template, files, now, started, workload, inv, views>>

\* delete_cached_image(guid, server) is called; it returns True when it
\* deleted a row.
CallDelete ==
    /\ Len(calls) < MaxLedgerCalls
    /\ \E k \in StoreKeys :
         /\ ledger' = DeleteCachedImage(ledger, k[1], k[2], TRUE)
         /\ calls' = Append(calls, Call("delete", k[1], k[2], NoImage, "", NoPath, TRUE,
                                        RowsOf(ledger, k[1], k[2]) # <<>>, FALSE))
    /\ UNCHANGED <<embed_template, files, now, started, workload, inv, views>>

\* A second passes between two calls.
ClockTick ==
    /\ now < MaxTime
    /\ now' = now + 1
    /\ UNCHANGED <<embed_template, ledger, files, started, workload, inv, calls, views>>

NextLedger == CallSave \/ CallDelete \/ ClockTick

\* The functions of db_utils called one after the other, as any caller may.
SpecLedger == InitLedger /\ [][NextLedger]_vars

\* ------------------------------------ the content store, called directly
MaxStoreCalls == 4   \* direct calls made of the functions of the content store

\* The scratch paths of one level: a region and the second of the download.
StorePaths == {MakeFilename("12", s, t) : s \in Regions, t \in 0..MaxTime}

InitContentStore == InitState /\ workload = "content"

\* download_image writes the bytes it received to the path it made
\* (images.py 105-110); open(file_path, 'wb') creates the file or truncates it.
CallWrite ==
    /\ Len(calls) < MaxStoreCalls
    /\ \E path \in StorePaths :
         /\ files' = files \cup {path}
         /\ calls' = Append(calls, Call("write", path.guid, path.server, NoImage, "",
                                        path, TRUE, TRUE, FALSE))
    /\ UNCHANGED <<embed_template, ledger, now, started, workload, inv, views>>

\* remove_cached_file(path) is called.
CallRemove ==
    /\ Len(calls) < MaxStoreCalls
    /\ \E path \in StorePaths :
         LET res == RemoveCachedFile(files, path) IN
         /\ files' = res.files
         /\ calls' = Append(calls, Call("remove", path.guid, path.server, NoImage, "",
                                        path, TRUE, res.removed, res.raised))
    /\ UNCHANGED <<embed_template, ledger, now, started, workload, inv, views>>

NextContentStore == CallWrite \/ CallRemove

\* Scratch files written and removed one after the other, as any caller may.
SpecContentStore == InitContentStore /\ [][NextContentStore]_vars

\* ------------------------------------------------- the changelog viewer
InitChangelogs == InitState /\ workload = "changelogs"

\* ChangelogPaginationView.update_buttons
UpdateButtons(view) ==
    [view EXCEPT !.previous_disabled = (view.current_page = 0),
                 !.next_disabled = (view.current_page = view.len - 1)]

\* Changelogs.changelogs, lines 87-101: with no changelog the command
\* answers "No changelogs found" and makes no view; otherwise it makes a
\* view on page 0 (ChangelogPaginationView.__init__).
ChangelogsCommand(v) ==
    /\ views[v] = NoView
    /\ \E n \in 0..MaxChangelogs :
         views' = IF n = 0 THEN views
                  ELSE [views EXCEPT ![v] =
                           UpdateButtons([NoView EXCEPT !.len = n, !.current_page = 0])]
    /\ UNCHANGED <<embed_template, ledger, files, now, started, workload, inv, calls>>

\* ChangelogPaginationView.previous_button
PreviousButton(v) ==
    /\ views[v].len > 0
    /\ views' = [views EXCEPT ![v] =
                    IF @.current_page > 0
                    THEN UpdateButtons([@ EXCEPT !.current_page = @ - 1,
                                                 !.pressed = "previous"])
                    ELSE [@ EXCEPT !.pressed = "previous"]]
    /\ UNCHANGED <<embed_template, ledger, files, now, started, workload, inv, calls>>

\* ChangelogPaginationView.next_button
NextButtonUnguarded(v) ==
    /\ views[v].len > 0
    /\ views' = [views EXCEPT ![v] =
                    UpdateButtons([@ EXCEPT !.current_page = @ + 1,
                                            !.pressed = "next"])]
    /\ UNCHANGED <<embed_template, ledger, files, now, started, workload, inv, calls>>

NextButton(v) ==
    /\ views[v].len > 0
    /\ views' = [views EXCEPT ![v] =
                    IF @.current_page < @.len - 1
                    THEN UpdateButtons([@ EXCEPT !.current_page = @ + 1,
                                                 !.pressed = "next"])
                    ELSE [@ EXCEPT !.pressed = "next"]]
    /\ UNCHANGED <<embed_template, ledger, files, now, started, workload, inv, calls>>

NextChangelogs ==
    \/ \E v \in Views : ChangelogsCommand(v)
    \/ \E v \in Views : PreviousButton(v)
    \/ \E v \in Views : NextButton(v)

\* /changelogs commands and the presses of the buttons of their views.
SpecChangelogs == InitChangelogs /\ [][NextChangelogs]_vars

\* ----------------------------------------------------------- properties
Finishes(i) == inv[i].pc # "done" /\ inv'[i].pc = "done"

Delivered(r) == {r.delivered[k] : k \in 1..Len(r.delivered)}

\* The lookup of r passed every layer and level_info names a cover.
LookupWithCover(r) == r.lookup = "level" /\ r.cover_in # ""

\* C1 as stated: whenever the lookup succeeds with a cover url and the ledger
\* holds an entry for (guid, server) at the cache check, the invocation
\* downloads nothing, uploads nothing, and the card it delivers shows the
\* entry's image_url.
C1_CacheHitWhenHeld ==
    \A i \in Invs :
        (LookupWithCover(inv[i]) /\ inv[i].held # NoImage) =>
            /\ inv[i].downloads = 0 /\ inv[i].uploads = 0
            /\ \A m \in Delivered(inv[i]) : m.card.image = inv[i].held

\* C1 amended: whenever the lookup succeeds with a cover url and
\* get_cached_image returns the entry the ledger holds for (guid, server),
\* the invocation downloads nothing, uploads nothing, and the card it
\* delivers is the rendered card showing that entry's image_url.
C1_CacheHit ==
    \A i \in Invs :
        (LookupWithCover(inv[i]) /\ inv[i].cached # NoImage) =>
            /\ inv[i].cached = inv[i].held
            /\ inv[i].downloads = 0 /\ inv[i].uploads = 0
            /\ inv[i].file_path = NoPath
            /\ \A m \in Delivered(inv[i]) :
                 m.card.kind = "card" /\ m.card.image = inv[i].held /\ m.file = NoPath

C1_Witness ==
    \E i \in Invs :
        /\ inv[i].pc = "done" /\ LookupWithCover(inv[i])
        /\ inv[i].cached # NoImage /\ Len(inv[i].delivered) = 1

\* A channel the invocation can deliver through: the interaction after a
\* successful defer, or the channel in fallback mode.
ChannelValid(r) ==
    \/ r.defers = 1 /\ ~r.use_channel_fallback
    \/ r.use_channel_fallback /\ r.has_channel

\* C2: an invocation that ends with a valid delivery channel has delivered
\* exactly one card.
C2_ExactlyOneDelivery ==
    \A i \in Invs :
        (inv[i].pc = "done" /\ ChannelValid(inv[i])) => Len(inv[i].delivered) = 1

\* C3: no invocation of the handler ends by raising.
C3_NeverRaises == \A i \in Invs : ~inv[i].raised

\* C4: an invocation whose guid is not a non-empty string of the digits 0-9
\* defers nothing, looks nothing up, downloads and uploads nothing, touches
\* the ledger not at all, and ends with the "Invalid GUID" card as its reply.
C4_NonNumericRejected ==
    \A i \in Invs :
        (inv[i].pc # "idle" /\ ~IsAsciiNumeric(inv[i].guid)) =>
            /\ inv[i].defers = 0 /\ inv[i].lookups = 0
            /\ inv[i].downloads = 0 /\ inv[i].uploads = 0
            /\ inv[i].gets = 0 /\ inv[i].deletes = 0 /\ inv[i].saves = <<>>
            /\ (inv[i].pc = "done" =>
                 \/ inv[i].raised
                 \/ inv[i].delivered =
                      <<Message(ErrorCard("Invalid GUID"), "response", NoPath)>>)

\* The error card of an invalid level carries the nested message.
CarriesNestedMessage(r) ==
    \A m \in Delivered(r) :
        /\ m.card.kind = "error"
        /\ (r.nested_msg # "" => m.card.description = r.nested_msg)

\* C5 as stated: once an invocation whose lookup reported the level invalid
\* while the ledger held an entry for its key has finished, the ledger holds
\* no entry for that key, and the error card carries the nested message.
C5_EvictedWhenFinished ==
    \A i \in Invs :
        (inv[i].pc = "done" /\ inv[i].lookup = "invalid" /\ inv[i].evict_held) =>
            /\ RowsOf(ledger, inv[i].guid, inv[i].server) = <<>>
            /\ CarriesNestedMessage(inv[i])

\* C5 amended: when the lookup reports the level invalid and the delete does
\* not fail, the ledger holds no entry for the key when the delete returns;
\* the card the invocation then delivers is the error card with the nested
\* message.
C5_Eviction ==
    [][\A i \in Invs :
         /\ ((inv[i].pc = "post" /\ inv'[i].lookup = "invalid" /\ inv'[i].evict_ok)
               => RowsOf(ledger', inv'[i].guid, inv'[i].server) = <<>>)
         /\ ((inv'[i].pc = "done" /\ inv'[i].lookup = "invalid")
               => CarriesNestedMessage(inv'[i]))]_vars

C5_Witness ==
    \E i \in Invs :
        /\ inv[i].pc = "done" /\ inv[i].lookup = "invalid"
        /\ inv[i].evict_held /\ inv[i].evict_ok
        /\ inv[i].nested_msg # "" /\ Len(inv[i].delivered) = 1

\* The cache-miss happy path: cover present, no ledger entry at the cache
\* check, download done, message with the file sent, hosted url obtained.
HappyMiss(r) ==
    /\ LookupWithCover(r) /\ r.held = NoImage
    /\ r.file_path # NoPath
    /\ r.delivered # <<>>
    /\ r.uploaded_url # NoImage

C8_SingleEntry == \A k \in Keys : Len(ledger[k]) <= 1

C8_Witness ==
    \E i, j \in Invs :
        /\ i # j
        /\ inv[i].pc = "done" /\ inv[j].pc = "done"
        /\ inv[i].guid = inv[j].guid /\ inv[i].server = inv[j].server
        /\ inv[i].held = NoImage /\ inv[j].held = NoImage
        /\ inv[i].save_ok /\ inv[j].save_ok
        /\ Len(ledger[<<inv[i].guid, inv[i].server>>]) = 1

\* The link-button urls of the template with the placeholders replaced by a
\* request's own values.
OwnUrls(guid, server) ==
    [k \in DOMAIN EmbedJson.urls |->
        Replace(Replace(EmbedJson.urls[k], "level_id", guid), "server_region", server)]

\* C9: the link buttons of every card delivered for a request carry that
\* request's own guid and server.
C9_OwnLinkButtons ==
    \A i \in Invs :
        \A m \in Delivered(inv[i]) :
            m.card.kind = "card" => m.card.urls = OwnUrls(inv[i].guid, inv[i].server)

\* C10: an invocation whose lookup succeeded without a cover url reads and
\* writes no ledger entry, downloads and uploads nothing, and the card it
\* delivers has no image.
C10_NoCoverLeg ==
    \A i \in Invs :
        (inv[i].lookup = "level" /\ inv[i].cover_in = "") =>
            /\ inv[i].gets = 0 /\ inv[i].saves = <<>> /\ inv[i].deletes = 0
            /\ inv[i].downloads = 0 /\ inv[i].uploads = 0
            /\ inv[i].file_path = NoPath
            /\ \A m \in Delivered(inv[i]) :
                 m.card.kind = "card" /\ m.card.image = NoImage /\ m.file = NoPath

C10_Witness ==
    \E i \in Invs :
        /\ inv[i].pc = "done" /\ inv[i].lookup = "level" /\ inv[i].cover_in = ""
        /\ Len(inv[i].delivered) = 1
        /\ inv[i].delivered[1].card.image = NoImage

\* The cover download of r failed: it was attempted and left no scratch file.
DownloadFailed(r) == r.downloads = 1 /\ r.file_path = NoPath

\* C11: after a ledger miss and a failed cover download the invocation
\* uploads nothing, writes nothing to the ledger, and the card it delivers
\* refers to no image at all.
C11_DownloadFailureClearsImage ==
    \A i \in Invs :
        (LookupWithCover(inv[i]) /\ inv[i].cached = NoImage /\ DownloadFailed(inv[i])) =>
            /\ inv[i].uploads = 0 /\ inv[i].saves = <<>>
            /\ inv[i].pc \in {"send", "done"}
            /\ \A m \in Delivered(inv[i]) :
                 m.card.kind = "card" /\ m.card.image = NoImage /\ m.file = NoPath

\* The send that carried the scratch file of r was made and no message with
\* the file went out.
UploadSendFailed(r) ==
    /\ r.file_path # NoPath /\ r.uploads = 1
    /\ \A m \in Delivered(r) : m.file # r.file_path

\* C12: an invocation whose send with the attachment failed ends having
\* delivered the rendered card without an image.
C12_UploadFailureDegrades ==
    \A i \in Invs :
        (inv[i].pc = "done" /\ UploadSendFailed(inv[i])) =>
            /\ Len(inv[i].delivered) = 1
            /\ inv[i].delivered[1].card.kind = "card"
            /\ inv[i].delivered[1].card.image = NoImage

\* C13: the delivery mode is set by the outcome of defer and never changes
\* while the invocation runs; every message sent or being sent after the
\* defer leaves through the channel when defer failed and through the
\* followup when it succeeded.
C13_FallbackDeliveryMode ==
    [][\A i \in Invs :
         /\ (inv[i].pc \notin {"idle", "defer", "done"}
               => inv'[i].use_channel_fallback = inv[i].use_channel_fallback)
         /\ (inv'[i].defers = 1 =>
               /\ \A m \in Delivered(inv'[i]) : m.via = DeliveryMode(inv'[i])
               /\ (inv'[i].pc \in {"send", "upload_send"}
                     => inv'[i].via = DeliveryMode(inv'[i])))]_vars

C13_Witness ==
    \E i \in Invs :
        /\ inv[i].pc = "done" /\ inv[i].use_channel_fallback
        /\ Len(inv[i].delivered) = 1
        /\ inv[i].delivered[1].file # NoPath
        /\ inv[i].delivered[1].via = "channel"

\* The outcome the handler must record for each failed layer.
OutcomeOfLayer ==
    [status |-> "status", decode |-> "decode", retcode |-> "api",
     nested_invalid |-> "invalid", nested |-> "nested", level_info |-> "malformed"]

\* The fixed texts of the layers that have one.
FixedDescription ==
    [status |-> "The server returned an error.",
     decode |-> "Could not decode the response from the server.",
     level_info |-> "Could not find level information in the response."]

\* C14: a lookup that fails a layer takes the error outcome of the first layer
\* it fails, each layer has its own outcome, the card sent is that layer's
\* error card, and the invocation renders no card, reads no ledger entry,
\* downloads and uploads nothing.
C14_LayeredValidation ==
    \A i \in Invs :
        LET r == inv[i] IN
        r.layer # "none" =>
            /\ r.lookup = OutcomeOfLayer[r.layer]
            /\ r.final_embed = NoCard /\ r.gets = 0
            /\ r.downloads = 0 /\ r.uploads = 0 /\ r.saves = <<>>
            /\ (ChannelValid(r) =>
                  /\ r.pc \in {"send", "done"}
                  /\ r.pending.kind = "error"
                  /\ (r.layer \in DOMAIN FixedDescription
                        => r.pending.description = FixedDescription[r.layer]))
            /\ \A m \in Delivered(r) : m.card = r.pending

\* C15: an invocation calls the upsert if and only if its upload obtained a
\* hosted url, once, at its end, with exactly that url; the entry written is
\* that url; when no url was obtained the step that ends the invocation
\* leaves the ledger as it is, and after three fruitless polls the message
\* sent with the file is the invocation's delivery.
C15_WriteOnlyHostedUrl ==
    [][\A i \in Invs :
         LET r == inv'[i] IN
         /\ (r.pc # "done" => r.saves = <<>>)
         /\ (Finishes(i) =>
               /\ (r.saves # <<>>) <=> (r.uploaded_url # NoImage)
               /\ (r.uploaded_url # NoImage =>
                     /\ r.uploaded_url = HostedUrl(r.file_path)
                     /\ r.saves = <<[guid |-> r.guid, server |-> r.server,
                                     image_url |-> r.uploaded_url,
                                     original_url |-> r.cover_in]>>
                     /\ (r.save_ok => Held(ledger', r.guid, r.server) = r.uploaded_url)
                     /\ (~r.save_ok => ledger' = ledger))
               /\ ((r.uploaded_url = NoImage /\ r.lookup = "level") => ledger' = ledger)
               /\ ((Len(r.slept) = PollAttempts /\ r.uploaded_url = NoImage) =>
                     /\ Len(r.delivered) = 1
                     /\ r.delivered[1].file = r.file_path))]_vars

C15_Witness ==
    \E i \in Invs :
        /\ inv[i].pc = "done" /\ Len(inv[i].slept) = PollAttempts
        /\ inv[i].uploaded_url = NoImage /\ inv[i].saves = <<>>
        /\ Len(inv[i].delivered) = 1
        /\ Held(ledger, inv[i].guid, inv[i].server) = NoImage

Polling(r) == r.pc \in {"poll_sleep", "poll_fetch"}

\* How far the loop of r has come: two steps for each attempt.
PollRank(r) == 2 * r.attempt + (IF r.pc = "poll_fetch" THEN 1 ELSE 0)

\* C16: polling happens only after a send that returned no attachment; the
\* n-th fetch follows a sleep of n x 1.5 s (3n half seconds); there are at
\* most 3 fetches; the fetch that returns an attachment ends the loop with
\* its url; the third fruitless fetch ends it without one; every step of the
\* loop brings it nearer its end.
C16_PollSafety ==
    [][\A i \in Invs :
         LET r == inv[i]
             q == inv'[i]
         IN
         /\ q.fetches <= 3 /\ Len(q.slept) <= 3
         /\ \A n \in 1..Len(q.slept) : q.slept[n] = 3 * n
         /\ q.fetches <= Len(q.slept) /\ Len(q.slept) <= q.fetches + 1
         /\ (q.slept # <<>> =>
               /\ q.uploads = 1 /\ Len(q.delivered) = 1
               /\ q.delivered[1].file = q.file_path /\ q.file_path # NoPath)
         /\ ((q.uploads = r.uploads + 1 /\ q.uploaded_url # NoImage)
               => q.pc = "done" /\ q.slept = <<>> /\ q.fetches = 0)
         /\ (q.fetches = r.fetches + 1 =>
               /\ r.pc = "poll_fetch" /\ Len(r.slept) = q.fetches
               /\ (q.uploaded_url # NoImage => q.pc = "done")
               /\ (q.fetches = 3 => q.pc = "done"))
         /\ ((Polling(r) /\ q # r) =>
               \/ q.pc = "done"
               \/ Polling(q) /\ PollRank(q) > PollRank(r) /\ PollRank(q) <= 7)]_vars

\* C16, termination: a polling loop that has started ends.
C16_PollTerminates == \A i \in Invs : Polling(inv[i]) ~> inv[i].pc = "done"

\* C16: the polling loop is bounded as above and always terminates.
C16_BoundedPolling == C16_PollSafety /\ C16_PollTerminates

C16_Witness ==
    \E i \in Invs :
        /\ inv[i].pc = "done" /\ inv[i].fetches = 3
        /\ inv[i].slept = <<3, 6, 9>> /\ inv[i].uploaded_url = NoImage

\* The ledger held an entry for r's key and the read returned none.
GetFailed(r) == r.gets = 1 /\ r.held # NoImage /\ r.cached = NoImage

\* C17: a failed read makes the invocation go on as on a miss, to the
\* download, and the card it then delivers has its image; after a failed
\* upsert the delivery is the rendered card sent with the scratch file, as
\* after a successful one; after a failed delete the error card of the
\* invalid level is sent, as after a successful one; none of the three makes
\* the handler raise.
C17_LedgerFailuresInvisible ==
    [][\A i \in Invs :
         LET r == inv[i]
             q == inv'[i]
         IN
         /\ ((q.gets = r.gets + 1 /\ GetFailed(q)) =>
               /\ ~q.raised /\ q.pc = "download"
               /\ q.final_embed.kind = "card" /\ q.delivered = <<>>)
         /\ ((Finishes(i) /\ GetFailed(q) /\ q.delivered # <<>>) =>
               /\ Len(q.delivered) = 1
               /\ q.delivered[1].card.kind = "card"
               /\ q.delivered[1].card.image # NoImage)
         /\ (Len(q.saves) = Len(r.saves) + 1 =>
               /\ ~q.raised /\ q.pc = "done"
               /\ q.delivered =
                    <<Message([q.final_embed EXCEPT !.image = AttachmentRef(q.file_path)],
                              DeliveryMode(q), q.file_path)>>)
         /\ (q.deletes = r.deletes + 1 =>
               /\ ~q.raised
               /\ (ChannelValid(q) =>
                     /\ q.pc = "send" /\ q.pending.kind = "error"
                     /\ (q.nested_msg # "" => q.pending.description = q.nested_msg)))]_vars

C17_Witness ==
    \E i \in Invs :
        /\ inv[i].pc = "done" /\ GetFailed(inv[i]) /\ ~inv[i].raised
        /\ Len(inv[i].delivered) = 1
        /\ inv[i].delivered[1].card.image = AttachmentRef(inv[i].file_path)
        /\ Len(inv[i].saves) = 1 /\ ~inv[i].save_ok

\* r was turned away by the validation of its guid.
Rejected(r) == r.pc \in {"send", "done"} /\ r.defers = 0

\* r is on an error path other than the one of the invalid level.
OtherErrorPath(r) ==
    \/ Rejected(r)
    \/ r.layer \in {"status", "decode", "retcode", "nested", "level_info"}

\* C18: an invocation calls the ledger's delete, once, if and only if the
\* body it got (HTTP 200, decodable, top-level retcode 0) has a nested
\* level_detail object with a non-zero retcode; on every other error path it
\* makes no ledger call and its steps leave the ledger as it is.
C18_EvictionOnlyOnInvalidLevel ==
    [][\A i \in Invs :
         LET q == inv'[i] IN
         /\ q.deletes = (IF q.layer = "nested_invalid" THEN 1 ELSE 0)
         /\ (OtherErrorPath(q) =>
               /\ q.gets = 0 /\ q.deletes = 0 /\ q.saves = <<>>
               /\ (q # inv[i] => ledger' = ledger))]_vars

C18_Witness ==
    \E i \in Invs :
        /\ inv[i].pc = "done" /\ inv[i].layer = "nested"
        /\ inv[i].deletes = 0 /\ Len(inv[i].delivered) = 1
        /\ Held(ledger, inv[i].guid, inv[i].server) # NoImage

\* C19: the delete of an invalid level is made before anything is sent, and
\* whether it removes a row, finds none or fails, the step that makes it
\* goes on to the send of the error card; an error card delivered for an
\* invalid level was preceded by the delete.
C19_EvictionBeforeErrorCard ==
    [][\A i \in Invs :
         LET r == inv[i]
             q == inv'[i]
         IN
         /\ (q.deletes = r.deletes + 1 =>
               /\ r.pc = "post" /\ q.delivered = <<>>
               /\ q.lookup = "invalid"
               /\ ((~q.use_channel_fallback \/ q.has_channel) =>
                     /\ q.pc = "send"
                     /\ q.pending.kind = "error"
                     /\ q.via = DeliveryMode(q)))
         /\ ((q.lookup = "invalid" /\ q.delivered # <<>>) =>
               /\ q.deletes = 1
               /\ q.delivered = <<Message(q.pending, q.via, NoPath)>>
               /\ q.pending.kind = "error")]_vars

C19_Witness ==
    \E i \in Invs :
        /\ inv[i].pc = "done" /\ inv[i].lookup = "invalid"
        /\ inv[i].deletes = 1 /\ inv[i].evict_held /\ ~inv[i].evict_ok
        /\ Len(inv[i].delivered) = 1
        /\ inv[i].delivered[1].card.kind = "error"

\* r holds a scratch file it has yet to upload or to clean up.
HoldsScratchFile(r) == r.pc \notin {"idle", "done"} /\ r.file_path # NoPath

\* C20: two invocations in flight never hold the same scratch file path, and
\* an invocation that comes to open its scratch file for the upload finds it.
C20_ScratchFilesUnique ==
    /\ \A i, j \in Invs :
         (i # j /\ HoldsScratchFile(inv[i]) /\ HoldsScratchFile(inv[j]))
            => inv[i].file_path # inv[j].file_path
    /\ \A i \in Invs :
         inv[i].pc = "upload_open" => inv[i].file_path \in files

\* The saves among the direct calls that committed, for one key.
CommittedSaves(k) ==
    SelectSeq(calls, LAMBDA c : c.op = "save" /\ c.ok /\ c.guid = k[1] /\ c.server = k[2])

\* The call being made in a step, when the step is a call.
IsCall(op) == Len(calls') = Len(calls) + 1 /\ calls'[Len(calls')].op = op
ThisCall == calls'[Len(calls')]

\* C21 as stated: after a call of the upsert the ledger holds exactly one
\* entry for the key of the call, with the hosted url and the original url
\* of the call.
C21_UpsertLeavesOneEntry ==
    (calls # <<>> /\ calls[Len(calls)].op = "save") =>
        LET c == calls[Len(calls)]
            rows == RowsOf(ledger, c.guid, c.server)
        IN  /\ Len(rows) = 1
            /\ rows[1].image_url = c.image_url
            /\ rows[1].original_url = c.original_url

\* C21 amended: a committed upsert for a key leaves exactly one entry for the key,
\* holding the hosted url and the original url of the call; when the key had
\* an entry its created_at is kept, and when the call repeats the values the
\* entry already holds the ledger is left as it was; the entries of the other
\* keys are not touched.
C21_UpsertIdempotent ==
    [][IsCall("save") /\ ThisCall.ok =>
         LET c == ThisCall
             before == RowsOf(ledger, c.guid, c.server)
             after == RowsOf(ledger', c.guid, c.server)
         IN  /\ Len(after) = 1
             /\ after[1].image_url = c.image_url
             /\ after[1].original_url = c.original_url
             /\ (before # <<>> => after[1].created_at = before[1].created_at)
             /\ ((before # <<>> /\ before[1].image_url = c.image_url
                    /\ before[1].original_url = c.original_url) => ledger' = ledger)
             /\ \A k \in Keys : k # <<c.guid, c.server>> => ledger'[k] = ledger[k]]_vars

\* Two committed upserts of one url for a key, then, a second later, one of
\* another url with another original url.
C21_Witness ==
    \E k \in StoreKeys :
        LET saves == CommittedSaves(k) IN
        /\ Len(calls) = 3 /\ Len(saves) = 3
        /\ saves[1].image_url = saves[2].image_url
        /\ saves[1].original_url = saves[2].original_url
        /\ saves[3].image_url # saves[2].image_url
        /\ saves[3].original_url # saves[2].original_url
        /\ Len(ledger[k]) = 1
        /\ ledger[k][1].image_url = saves[3].image_url
        /\ ledger[k][1].created_at = 0 /\ ledger[k][1].updated_at = 1

\* r is served from the ledger: the read returned an entry's image.
ServedFromLedger(r) == r.cached # NoImage

\* C22 as stated: an invocation that is served from the ledger has issued no
\* lookup request.
C22_NoLookupOnLedgerHit ==
    \A i \in Invs : ServedFromLedger(inv[i]) => inv[i].lookups = 0

\* C22 amended: the lookup comes first.  The ledger is read in the step that
\* handles the response of the invocation's one lookup request, and in no
\* other; an invocation served from the ledger has issued exactly one lookup
\* request, and downloads and uploads nothing.
C22_LookupBeforeLedger ==
    [][\A i \in Invs :
         LET r == inv[i]
             q == inv'[i]
         IN
         /\ (q.gets > 0 => q.lookups = 1)
         /\ ((q.gets # r.gets /\ r.pc # "done") =>
               /\ r.pc = "post" /\ r.gets = 0 /\ q.gets = 1
               /\ r.lookups = 0 /\ q.lookups = 1)
         /\ (ServedFromLedger(q) =>
               /\ q.lookups = 1 /\ q.gets = 1
               /\ q.downloads = 0 /\ q.uploads = 0)]_vars

C22_Witness ==
    \E i \in Invs :
        /\ inv[i].pc = "done" /\ ServedFromLedger(inv[i])
        /\ inv[i].lookups = 1 /\ inv[i].use_channel_fallback
        /\ Len(inv[i].delivered) = 1
        /\ inv[i].delivered[1].card.image = inv[i].cached

C24_TemplateUnchanged == embed_template = EmbedJson

\* C25: when an invocation has deleted the entry of its key because the
\* level was reported invalid, and an invocation for the same key that had
\* looked the level up and missed the cache before that delete has finished
\* too, the ledger holds no entry for the key.
C25_EvictionNotUndone ==
    \A i, j \in Invs :
        (/\ i # j
         /\ inv[i].pc = "done" /\ inv[i].lookup = "invalid" /\ inv[i].evict_ok
         /\ inv[j].pc = "done" /\ inv[j].seq \in inv[i].overtook)
        => RowsOf(ledger, inv[i].guid, inv[i].server) = <<>>

\* The body of r was a decoded object whose top-level retcode is 0.
TopLevelOk(r) == r.lookups = 1 /\ r.layer \in {"nested_invalid", "nested", "level_info", "none"}
                 /\ r.lookup # "connection"

\* C26: an invocation whose lookup returned HTTP 200, a JSON body and
\* top-level retcode 0 does not fault on the body, whichever nested member is
\* absent or null: it comes to an error card, or to the rendered card, which
\* has no image when cover_img is absent or null.
C26_NestedAbsenceIsAnErrorCard ==
    \A i \in Invs :
        LET r == inv[i] IN
        (TopLevelOk(r) /\ r.pc # "post") =>
            /\ r.lookup # "traversal"
            /\ (r.lookup = "level" => r.final_embed.kind = "card")
            /\ (r.lookup # "level" =>
                  (ChannelValid(r) => r.pending.kind = "error"))
            /\ ((r.lookup = "level" /\ r.cover_in = "") =>
                  /\ r.final_embed.image = NoImage
                  /\ (ChannelValid(r) => r.pending = r.final_embed))

\* The hosted url of an attachment that an invocation for the key k sent.
HostedForKey(image_url, k) ==
    /\ image_url.scheme = "cdn"
    /\ image_url.file # NoPath
    /\ image_url.file.guid = k[1] /\ image_url.file.server = k[2]

\* C27: every entry of the ledger holds, as its image_url, the hosted url of
\* an attachment sent for the entry's own key, never a remote source url, an
\* attachment reference or an empty value, and as its original_url a cover
\* url; and every step that writes an entry is the end of an invocation for
\* that key whose message with the scratch file went out, whose upload
\* obtained that hosted url, and which had downloaded that cover url.
C27_LedgerContentIntegrity ==
    [][\A k \in Keys :
         /\ \A n \in 1..Len(ledger'[k]) :
               /\ HostedForKey(ledger'[k][n].image_url, k)
               /\ ledger'[k][n].original_url # ""
         /\ ((ledger'[k] # ledger[k] /\ ledger'[k] # <<>>) =>
               \E i \in Invs :
                  LET q == inv'[i] IN
                  /\ Finishes(i) /\ <<q.guid, q.server>> = k
                  /\ q.downloads = 1 /\ q.uploads = 1
                  /\ \E m \in Delivered(q) : m.file = q.file_path
                  /\ q.uploaded_url = HostedUrl(q.file_path)
                  /\ ledger'[k][1].image_url = q.uploaded_url
                  /\ ledger'[k][1].original_url = q.cover_in)]_vars

\* An entry written with the url that the second poll obtained.
C27_Witness ==
    \E i \in Invs :
        /\ inv[i].pc = "done" /\ inv[i].fetches = 2 /\ inv[i].save_ok
        /\ Len(ledger[<<inv[i].guid, inv[i].server>>]) = 1
        /\ ledger[<<inv[i].guid, inv[i].server>>][1].image_url = inv[i].uploaded_url
        /\ ledger[<<inv[i].guid, inv[i].server>>][1].original_url = CoverUrl

\* C28: an invocation reads the ledger only when its own lookup passed every
\* validation layer and named a cover url; an invocation whose lookup did
\* not succeed never reads the ledger, and no card it sends or is about to
\* send carries an image, whether or not the ledger holds an entry for its
\* key.
C28_CachedOnlyAfterOwnLookup ==
    \A i \in Invs :
        LET r == inv[i] IN
        /\ (r.gets > 0 =>
              /\ r.lookups = 1 /\ r.lookup = "level" /\ r.layer = "none"
              /\ r.cover_in # "")
        /\ (r.cached # NoImage => r.gets = 1)
        /\ (r.lookup # "level" =>
              /\ r.gets = 0 /\ r.cached = NoImage
              /\ r.pending.image = NoImage
              /\ \A m \in Delivered(r) : m.card.image = NoImage /\ m.file = NoPath)

\* An error card sent for an application error while the ledger holds an
\* entry for the key.
C28_Witness ==
    \E i \in Invs :
        /\ inv[i].pc = "done" /\ inv[i].layer = "retcode"
        /\ Held(ledger, inv[i].guid, inv[i].server) # NoImage
        /\ Len(inv[i].delivered) = 1
        /\ inv[i].delivered[1].card.kind = "error"
        /\ inv[i].delivered[1].card.image = NoImage

\* r is past the send that carried its scratch file and is retrieving the
\* hosted url.
Retrieving(r) == r.pc \in {"fetch_channel", "poll_sleep", "poll_fetch"}

\* C29: an invocation makes at most one send, on every path, so at most one
\* message of it reaches the user; while a send is still to come nothing has
\* been sent; and fetching the channel and polling for the url send nothing.
C29_AtMostOneMessage ==
    [][\A i \in Invs :
         LET r == inv[i]
             q == inv'[i]
         IN
         /\ q.sends <= 1 /\ Len(q.delivered) <= q.sends
         /\ (q.pc \in {"defer", "post", "send", "download", "upload_open", "upload_send"}
               => q.sends = 0)
         /\ (Retrieving(q) => q.sends = 1 /\ Len(q.delivered) = 1)
         /\ (Retrieving(r) => q.sends = r.sends /\ q.delivered = r.delivered)]_vars

\* A message sent with the file, then three polls, and nothing else sent.
C29_Witness ==
    \E i \in Invs :
        /\ inv[i].pc = "done" /\ inv[i].fetches = 3 /\ inv[i].sends = 1
        /\ Len(inv[i].delivered) = 1
        /\ inv[i].delivered[1].file = inv[i].file_path

\* C30: the page of a view over a non-empty list is always one of
\* 0..len-1; Previous is disabled exactly on page 0 and Next exactly on page
\* len-1; a press of Previous moves one page back, a press of Next one page
\* on, and a press at the boundary leaves the page and the buttons as they
\* were; the length of the list never changes.
C30_PaginationInBounds ==
    [][\A v \in Views :
         LET r == views[v]
             q == views'[v]
         IN
         /\ (q.len > 0 =>
               /\ q.current_page \in 0..(q.len - 1)
               /\ q.previous_disabled <=> (q.current_page = 0)
               /\ q.next_disabled <=> (q.current_page = q.len - 1))
         /\ ((r.len > 0 /\ q # r) =>
               /\ q.len = r.len
               /\ q.pressed \in {"previous", "next"}
               /\ (q.pressed = "previous" =>
                     q.current_page = IF r.current_page = 0 THEN 0
                                      ELSE r.current_page - 1)
               /\ (q.pressed = "next" =>
                     q.current_page = IF r.current_page = r.len - 1 THEN r.current_page
                                      ELSE r.current_page + 1)
               /\ (q.current_page = r.current_page =>
                     /\ q.previous_disabled = r.previous_disabled
                     /\ q.next_disabled = r.next_disabled))]_vars

\* A view of one page whose Next was pressed, and a view of three pages
\* brought to its last page.
C30_Witness ==
    \E v, w \in Views :
        /\ views[v].len = 1 /\ views[v].pressed = "next"
        /\ views[v].current_page = 0
        /\ views[v].previous_disabled /\ views[v].next_disabled
        /\ views[w].len = 3 /\ views[w].current_page = 2
        /\ views[w].next_disabled /\ ~views[w].previous_disabled

====
